---- MODULE Spec2Model ----
(***************************************************************************)
(* A model of grapher.NormalizeData (src/grapher/grapher.go): the          *)
(* reference rewrite, the conversion decision, the conversion of rune      *)
(* offsets to byte offsets with its per-call file cache and its            *)
(* recover-and-continue failure handling, the three validators and the     *)
(* final sort.                                                             *)
(*                                                                         *)
(* Strings that the code inspects (unit types, repository identifiers) are *)
(* sequences of characters or tokens; file contents are sequences of       *)
(* UTF-8 rune widths, so that a rune offset and a byte offset differ.      *)
(***************************************************************************)
EXTENDS Integers, Sequences, FiniteSets, TLC

VARIABLES
    offsetType,      \* argument offsetType of NormalizeData
    unitType,        \* argument unitType of NormalizeData
    o,               \* argument o: the Output, mutated in place
    fs,              \* the file system under dir
    pc,              \* position of NormalizeData
    i,               \* index of the range loop being run
    convertOffsets,  \* local convertOffsets of NormalizeData
    files,           \* local files of ensureOffsetsAreByteOffsets (the cache)
    reads,           \* history: the calls of ioutil.ReadFile in this call, per path
    vlog,            \* history: the validators run in this call, each with its
                     \* verdict and the collection it was given
    err,             \* the value NormalizeData returned ("pending" until it returns)
    o0,              \* history: the Output as it was when this call started
    fsPrev,          \* history: the file system during the previous call
    calls,           \* number of calls of NormalizeData started
    panics           \* history: the records whose fix recovered a panic in this call

vars == <<offsetType, unitType, o, fs, pc, i, convertOffsets, files, reads,
          vlog, err, o0, fsPrev, calls, panics>>

---------------------------------------------------------------------------
(* Bounds of the model *)

\* Largest offset a grapher emits for the files "a", "b", "c", "u", each of
\* which has fewer runes.
MaxOff == 3

\* Largest number of records in an Output with more than one record.
MaxRecs == 2

\* Number of successive NormalizeData calls on the same Output.
MaxCalls == 2

---------------------------------------------------------------------------
(* OffsetType *)

OffsetUnspecified == 0
OffsetChar == 1
OffsetByte == 2

OffsetTypes == {OffsetUnspecified, OffsetChar, OffsetByte}

---------------------------------------------------------------------------
(* Strings *)

GoPackage == <<"G", "o", "P", "a", "c", "k", "a", "g", "e">>
Dockerfile == <<"D", "o", "c", "k", "e", "r", "f", "i", "l", "e">>
Java == <<"J", "a", "v", "a">>

\* strings.HasPrefix
HasPrefix(s, prefix) ==
    /\ Len(s) >= Len(prefix)
    /\ SubSeq(s, 1, Len(prefix)) = prefix

Python == <<"P", "y", "t", "h", "o", "n">>
JavaArtifact == Java \o <<"A", "r", "t", "i", "f", "a", "c", "t">>
UnitTypes ==
    { GoPackage, Dockerfile, Java, JavaArtifact, Python,
      GoPackage \o <<"s">>, <<"J", "a", "v">>, <<"j", "a", "v", "a">>, <<>> }

---------------------------------------------------------------------------
(* The file system under dir *)

Dir == "/repo"

\* filepath.Join(dir, filename)
Join(dir, filename) == <<dir, filename>>

FileNames == {"", "a", "b", "c", "m", "d", "u"}

\* Files that hold the word of 5 code points in 6 bytes: one code point of
\* two bytes, the n-th in the file named by CafeNames[n], and four of one.
CafeNames == <<"k1", "k2", "k3", "k4", "k5">>
CafeFiles == { CafeNames[n] : n \in DOMAIN CafeNames }
ContentCafe(n) == [k \in DOMAIN CafeNames |-> IF k = n THEN 2 ELSE 1]

Paths == { Join(Dir, n) : n \in (FileNames \ {""}) \cup CafeFiles }

\* A file's content is the sequence of the byte widths of its runes.
ContentA == <<2, 1>>
ContentB == <<1, 2>>
ContentC == <<1, 1>>
ContentU == <<1, 1>>
ContentEdited == <<1, 3>>

\* "a", "b", "c": regular readable files, "c" of one-byte runes only; "u": a
\* regular file that cannot be read; "d": a directory; "m": nothing at that
\* path; the files of CafeFiles: regular readable files.
FS0 ==
    [p \in Paths |->
        CASE p = Join(Dir, "a") -> [mode |-> "regular", readable |-> TRUE, data |-> ContentA]
          [] p = Join(Dir, "b") -> [mode |-> "regular", readable |-> TRUE, data |-> ContentB]
          [] p = Join(Dir, "c") -> [mode |-> "regular", readable |-> TRUE, data |-> ContentC]
          [] p = Join(Dir, "u") -> [mode |-> "regular", readable |-> FALSE, data |-> ContentU]
          [] p = Join(Dir, "d") -> [mode |-> "dir", readable |-> FALSE, data |-> <<>>]
          [] p[2] \in CafeFiles ->
                [mode |-> "regular", readable |-> TRUE,
                 data |-> ContentCafe(CHOOSE n \in DOMAIN CafeNames : CafeNames[n] = p[2])]
          [] OTHER -> [mode |-> "none", readable |-> FALSE, data |-> <<>>]]

\* The file system with the content of "a" replaced.
EditedFS(f) == [f EXCEPT ![Join(Dir, "a")].data = ContentEdited]

\* os.Stat(filename) succeeds and fi.Mode().IsRegular()
StatIsRegular(filename) ==
    /\ filename \in DOMAIN fs
    /\ fs[filename].mode = "regular"

\* ioutil.ReadFile(filename) returns no error
ReadFileOk(filename) == fs[filename].readable

---------------------------------------------------------------------------
(* The position index (package fileset) *)

RECURSIVE SumWidths(_, _)
SumWidths(data, n) == IF n = 0 THEN 0 ELSE SumWidths(data, n - 1) + data[n]

\* fset.AddFile followed by f.SetByteOffsetsForContent(data): entry n + 1 is
\* the byte offset of rune offset n, for every n up to the number of runes.
SetByteOffsetsForContent(data) ==
    [byteOffsets |-> [n \in 1..(Len(data) + 1) |-> SumWidths(data, n - 1)]]

\* f.ByteOffsetOfRune(offset) panics: the offset is beyond the content.
ByteOffsetOfRunePanics(f, offset) == (offset + 1) \notin DOMAIN f.byteOffsets

\* f.ByteOffsetOfRune(offset)
ByteOffsetOfRune(f, offset) == f.byteOffsets[offset + 1]

---------------------------------------------------------------------------
(* ensureOffsetsAreByteOffsets: the cache and the converter *)

NoFiles == [p \in {} |-> 0]
NoReads == [p \in Paths |-> 0]

\* addOrGetFile that never finds a file in the cache: it reads and indexes
\* the file on every request.
addOrGetFileNoLookup(filename, cache, rd) ==
    IF ~ReadFileOk(filename)
    THEN [panicked |-> TRUE, f |-> SetByteOffsetsForContent(<<>>), files |-> cache,
          reads |-> [rd EXCEPT ![filename] = @ + 1]]
    ELSE LET f == SetByteOffsetsForContent(fs[filename].data)
         IN [panicked |-> FALSE, f |-> f,
             files |-> [p \in DOMAIN cache \cup {filename} |->
                            IF p = filename THEN f ELSE cache[p]],
             reads |-> [rd EXCEPT ![filename] = @ + 1]]

\* addOrGetFile with the cache looked up under no key: once a file is cached
\* it is returned for every filename.
addOrGetFileOneSlot(filename, cache, rd) ==
    IF DOMAIN cache # {}
    THEN [panicked |-> FALSE, f |-> cache[CHOOSE p \in DOMAIN cache : TRUE],
          files |-> cache, reads |-> rd]
    ELSE IF ~ReadFileOk(filename)
    THEN [panicked |-> TRUE, f |-> SetByteOffsetsForContent(<<>>), files |-> cache,
          reads |-> [rd EXCEPT ![filename] = @ + 1]]
    ELSE LET f == SetByteOffsetsForContent(fs[filename].data)
         IN [panicked |-> FALSE, f |-> f,
             files |-> [p \in {filename} |-> f],
             reads |-> [rd EXCEPT ![filename] = @ + 1]]

\* addOrGetFile(filename) with the cache cache and the read counts rd:
\* panicked, or the file f with the cache and the counts after the call.
addOrGetFile(filename, cache, rd) ==
    IF filename \in DOMAIN cache
    THEN [panicked |-> FALSE, f |-> cache[filename], files |-> cache, reads |-> rd]
    ELSE IF ~ReadFileOk(filename)
    THEN [panicked |-> TRUE, f |-> SetByteOffsetsForContent(<<>>), files |-> cache,
          reads |-> [rd EXCEPT ![filename] = @ + 1]]
    ELSE LET f == SetByteOffsetsForContent(fs[filename].data)
         IN [panicked |-> FALSE,
             f |-> f,
             files |-> [p \in DOMAIN cache \cup {filename} |->
                            IF p = filename THEN f ELSE cache[p]],
             reads |-> [rd EXCEPT ![filename] = @ + 1]]

\* The loop over offsets of fix left after its first iteration: only the
\* first offset is converted.
fixLoopFirstOnly(f, offsets, k) ==
    IF offsets[1] = 0 THEN [offsets |-> offsets, panicked |-> FALSE]
    ELSE IF ByteOffsetOfRunePanics(f, offsets[1])
    THEN [offsets |-> offsets, panicked |-> TRUE]
    ELSE [offsets |-> [offsets EXCEPT ![1] = ByteOffsetOfRune(f, offsets[1])],
          panicked |-> FALSE]

\* The loop over offsets of fix, from the k-th offset on: the offsets as they
\* are when the loop ends or panics.
RECURSIVE fixLoop(_, _, _)
fixLoop(f, offsets, k) ==
    IF k > Len(offsets) THEN [offsets |-> offsets, panicked |-> FALSE]
    ELSE IF offsets[k] = 0 THEN fixLoop(f, offsets, k + 1)
    ELSE IF ByteOffsetOfRunePanics(f, offsets[k])
    THEN [offsets |-> offsets, panicked |-> TRUE]
    ELSE fixLoop(f, [offsets EXCEPT ![k] = ByteOffsetOfRune(f, offsets[k])], k + 1)

\* fix without the os.Stat test: a file that is missing or not regular goes
\* on to addOrGetFile.
fixNoStat(filename, offsets, cache, rd) ==
    IF filename = "" THEN [offsets |-> offsets, files |-> cache, reads |-> rd, panicked |-> FALSE]
    ELSE LET got == addOrGetFile(Join(Dir, filename), cache, rd)
         IN  IF got.panicked
             THEN [offsets |-> offsets, files |-> cache, reads |-> got.reads, panicked |-> TRUE]
             ELSE LET r == fixLoop(got.f, offsets, 1)
                  IN [offsets |-> r.offsets, files |-> got.files,
                      reads |-> got.reads, panicked |-> r.panicked]

\* fix(filename, offsets...) with the cache cache: the offsets, the cache and
\* the read counts after the call; a panic is recovered inside fix.
fix(filename, offsets, cache, rd) ==
    LET same == [offsets |-> offsets, files |-> cache, reads |-> rd, panicked |-> FALSE]
    IN  IF filename = "" THEN same
        ELSE IF ~StatIsRegular(Join(Dir, filename)) THEN same
        ELSE LET got == addOrGetFile(Join(Dir, filename), cache, rd)
             IN  IF got.panicked
                 THEN [offsets |-> offsets, files |-> cache, reads |-> got.reads,
                       panicked |-> TRUE]
                 ELSE LET r == fixLoop(got.f, offsets, 1)
                      IN [offsets |-> r.offsets, files |-> got.files,
                          reads |-> got.reads, panicked |-> r.panicked]

---------------------------------------------------------------------------
(* Repository identifiers and graph.MakeURI *)

EmptyRepo == <<>>
CanonRepo == <<"github.com/x/y">>
RawRepo == <<"https://", "github.com/x/y", ".git">>
Repos == {EmptyRepo, CanonRepo, RawRepo}

\* graph.MakeURI(cloneURL): the identifier without its scheme and without
\* its ".git" suffix.
MakeURI(cloneURL) ==
    LET noScheme == IF Len(cloneURL) > 0 /\ Head(cloneURL) = "https://"
                    THEN Tail(cloneURL) ELSE cloneURL
    IN  IF Len(noScheme) > 0 /\ noScheme[Len(noScheme)] = ".git"
        THEN SubSeq(noScheme, 1, Len(noScheme) - 1) ELSE noScheme

\* RewriteRefs that leaves the loop after the first Ref.
RewriteRefsFirst(refs) ==
    [k \in DOMAIN refs |->
        IF k = 1 /\ refs[k].DefRepo # EmptyRepo
        THEN [refs[k] EXCEPT !.DefRepo = MakeURI(refs[k].DefRepo)]
        ELSE refs[k]]

\* The loop over o.Refs that opens NormalizeData.
RewriteRefs(refs) ==
    [k \in DOMAIN refs |->
        IF refs[k].DefRepo # EmptyRepo
        THEN [refs[k] EXCEPT !.DefRepo = MakeURI(refs[k].DefRepo)]
        ELSE refs[k]]

---------------------------------------------------------------------------
(* The conversion decision *)

\* ConvertDecision with OffsetByte taken for OffsetChar.
ConvertDecisionByteConverts(ot, ut) ==
    IF ot = OffsetChar \/ ot = OffsetByte THEN TRUE
    ELSE /\ ut # GoPackage
         /\ ut # Dockerfile
         /\ ~HasPrefix(ut, Java)

\* ConvertDecision with the Java unit types matched exactly, not by prefix.
ConvertDecisionExactJava(ot, ut) ==
    IF ot = OffsetChar THEN TRUE
    ELSE IF ot = OffsetByte THEN FALSE
    ELSE /\ ut # GoPackage
         /\ ut # Dockerfile
         /\ ut # Java

\* The value NormalizeData gives convertOffsets.
ConvertDecision(ot, ut) ==
    IF ot = OffsetChar THEN TRUE
    ELSE IF ot = OffsetByte THEN FALSE
    ELSE /\ ut # GoPackage
         /\ ut # Dockerfile
         /\ ~HasPrefix(ut, Java)

---------------------------------------------------------------------------
(* sortedOutput *)

StrOrder == <<"", "a", "b", "c", "d", "k1", "k2", "k3", "k4", "k5", "m", "u">>
StrRank(x) == CHOOSE k \in DOMAIN StrOrder : StrOrder[k] = x
RepoOrder == <<EmptyRepo, CanonRepo, RawRepo>>
RepoRank(x) == CHOOSE k \in DOMAIN RepoOrder : RepoOrder[k] = x

\* Lexicographic order on sequences of numbers of the same length.
RECURSIVE LexLess(_, _)
LexLess(x, y) ==
    IF x = <<>> THEN FALSE
    ELSE IF Head(x) # Head(y) THEN Head(x) < Head(y)
    ELSE LexLess(Tail(x), Tail(y))

\* graph.Defs.Less, graph.Refs.Less, graph.Docs.Less, ann.Anns.Less: a total
\* order on the records of a collection.
DefLess(x, y) ==
    LexLess(<<StrRank(x.File), x.DefStart, x.DefEnd>>,
            <<StrRank(y.File), y.DefStart, y.DefEnd>>)
RefLess(x, y) ==
    LexLess(<<RepoRank(x.DefRepo), StrRank(x.File), x.Start, x.End>>,
            <<RepoRank(y.DefRepo), StrRank(y.File), y.Start, y.End>>)
DocLess(x, y) ==
    LexLess(<<StrRank(x.File), x.Start, x.End>>, <<StrRank(y.File), y.Start, y.End>>)
AnnLess(x, y) ==
    LexLess(<<StrRank(x.File), x.Start, x.End>>, <<StrRank(y.File), y.Start, y.End>>)

\* Less of the sort.Interface of the collection coll.
Less(coll, x, y) ==
    CASE coll = "Defs" -> DefLess(x, y)
      [] coll = "Refs" -> RefLess(x, y)
      [] coll = "Docs" -> DocLess(x, y)
      [] OTHER -> AnnLess(x, y)

\* The inner loop of an insertion sort: s[j] moves down while it is less
\* than the element before it.
RECURSIVE SinkDown(_, _, _)
SinkDown(s, j, coll) ==
    IF j > 1 /\ Less(coll, s[j], s[j - 1])
    THEN SinkDown([s EXCEPT ![j] = s[j - 1], ![j - 1] = s[j]], j - 1, coll)
    ELSE s

\* The outer loop of an insertion sort, from the k-th element on.
RECURSIVE SortFrom(_, _, _)
SortFrom(s, k, coll) ==
    IF k > Len(s) THEN s ELSE SortFrom(SinkDown(s, k, coll), k + 1, coll)

\* sort.Sort on a short slice
Sort(s, coll) == SortFrom(s, 2, coll)

\* A sorted collection with each run of records that are equal in every field
\* reduced to its last record.
RECURSIVE Compact(_)
Compact(s) ==
    IF Len(s) <= 1 THEN s
    ELSE LET t == Compact(Tail(s))
         IN  IF [s[1] EXCEPT !.ptr = t[1].ptr] = t[1] THEN t ELSE <<s[1]>> \o t

\* sortedOutput that also removes the records equal to another one.
sortedOutputCompacting(out) ==
    [Defs |-> Compact(Sort(out.Defs, "Defs")),
     Refs |-> Compact(Sort(out.Refs, "Refs")),
     Docs |-> Compact(Sort(out.Docs, "Docs")),
     Anns |-> Compact(Sort(out.Anns, "Anns"))]

\* sortedOutput that sorts the Defs and forgets the other collections.
sortedOutputDefsOnly(out) == [out EXCEPT !.Defs = Sort(out.Defs, "Defs")]

\* sortedOutput(o)
sortedOutput(out) ==
    [Defs |-> Sort(out.Defs, "Defs"),
     Refs |-> Sort(out.Refs, "Refs"),
     Docs |-> Sort(out.Docs, "Docs"),
     Anns |-> Sort(out.Anns, "Anns")]

---------------------------------------------------------------------------
(* Inputs *)

Offsets == 0..MaxOff

\* Every record over the modelled files and offsets.
DefsFull == [File : FileNames, DefStart : Offsets, DefEnd : Offsets]
RefsFull == [DefRepo : Repos, File : FileNames, Start : Offsets, End : Offsets]
DocsFull == [File : FileNames, Start : Offsets, End : Offsets]
AnnsFull == DocsFull

\* An Output of one record, any record.
OutputsOne ==
    { [Defs |-> <<r>>, Refs |-> <<>>, Docs |-> <<>>, Anns |-> <<>>] : r \in DefsFull }
    \cup { [Defs |-> <<>>, Refs |-> <<r>>, Docs |-> <<>>, Anns |-> <<>>] : r \in RefsFull }
    \cup { [Defs |-> <<>>, Refs |-> <<>>, Docs |-> <<r>>, Anns |-> <<>>] : r \in DocsFull }
    \cup { [Defs |-> <<>>, Refs |-> <<>>, Docs |-> <<>>, Anns |-> <<r>>] : r \in AnnsFull }

\* The records of an Output of several records: regular files, and positions
\* with both offsets in range or with one out of range (MaxOff).
FilesSmall == {"a", "b", "u"}
PairsSmall == {<<1, 2>>, <<MaxOff, 1>>}
DefsSmall == { [File |-> f, DefStart |-> p[1], DefEnd |-> p[2]] : f \in FilesSmall, p \in PairsSmall }
DocsSmall == { [File |-> f, Start |-> p[1], End |-> p[2]] : f \in FilesSmall, p \in PairsSmall }
RefsSmall ==
    { [DefRepo |-> RawRepo, File |-> r.File, Start |-> r.Start, End |-> r.End] : r \in DocsSmall }
AnnsSmall == DocsSmall

\* How many records each collection holds, 2..MaxRecs in all.
Shapes ==
    { sh \in [Defs : 0..MaxRecs, Refs : 0..MaxRecs, Docs : 0..MaxRecs, Anns : 0..MaxRecs] :
        sh.Defs + sh.Refs + sh.Docs + sh.Anns \in 2..MaxRecs }

OutputsMany ==
    UNION { [Defs : [1..sh.Defs -> DefsSmall], Refs : [1..sh.Refs -> RefsSmall],
             Docs : [1..sh.Docs -> DocsSmall], Anns : [1..sh.Anns -> AnnsSmall]] :
            sh \in Shapes }

\* One Def at the end of a file of CafeFiles, or one rune before or after it.
CafeOffsets == {Len(CafeNames) - 1, Len(CafeNames), Len(CafeNames) + 1}
OutputsCafe ==
    { [Defs |-> <<[File |-> f, DefStart |-> p, DefEnd |-> p]>>,
       Refs |-> <<>>, Docs |-> <<>>, Anns |-> <<>>] : f \in CafeFiles, p \in CafeOffsets }

\* One record at a converting position of "a": the Outputs tried with every
\* offset-type and unit-type.
IsProbe(out) ==
    /\ out \in OutputsOne
    /\ \A r \in {out.Defs[k] : k \in DOMAIN out.Defs} : r = [File |-> "a", DefStart |-> 1, DefEnd |-> 2]
    /\ \A r \in {out.Refs[k] : k \in DOMAIN out.Refs} :
            r = [DefRepo |-> RawRepo, File |-> "a", Start |-> 1, End |-> 2]
    /\ \A r \in {out.Docs[k] : k \in DOMAIN out.Docs} \cup {out.Anns[k] : k \in DOMAIN out.Anns} :
            r = [File |-> "a", Start |-> 1, End |-> 2]

ArgsCore ==
    { <<OffsetChar, GoPackage>>, <<OffsetUnspecified, Python>>,
      <<OffsetUnspecified, GoPackage>>, <<OffsetByte, Python>> }

ArgsMany == { <<OffsetChar, GoPackage>>, <<OffsetByte, Python>> }

ArgsFor(out) ==
    IF IsProbe(out) THEN OffsetTypes \X UnitTypes
    ELSE IF out \in OutputsOne THEN ArgsCore
    ELSE ArgsMany

---------------------------------------------------------------------------
(* NormalizeData *)

\* The collections hold pointers ([]*graph.Def, ...): each record carries
\* its identity ptr, which no operation reads or writes.
WithPtrs(s) == [k \in DOMAIN s |-> [ptr |-> k] @@ s[k]]
Allocate(out) ==
    [Defs |-> WithPtrs(out.Defs), Refs |-> WithPtrs(out.Refs),
     Docs |-> WithPtrs(out.Docs), Anns |-> WithPtrs(out.Anns)]

Init ==
    /\ \E out \in OutputsOne \cup OutputsMany \cup OutputsCafe :
        /\ o = Allocate(out)
        /\ \E a \in ArgsFor(out) : offsetType = a[1] /\ unitType = a[2]
    /\ fs = FS0
    /\ pc = "rewrite"
    /\ i = 1
    /\ convertOffsets = FALSE
    /\ files = NoFiles
    /\ reads = NoReads
    /\ vlog = <<>>
    /\ err = "pending"
    /\ o0 = o
    /\ fsPrev = fs
    /\ calls = 1
    /\ panics = {}

\* for _, ref := range o.Refs { ... }
Rewrite ==
    /\ pc = "rewrite"
    /\ o' = [o EXCEPT !.Refs = RewriteRefs(o.Refs)]
    /\ pc' = "decide"
    /\ UNCHANGED <<offsetType, unitType, fs, i, convertOffsets, files, reads,
                   vlog, err, o0, fsPrev, calls, panics>>

\* The cache kept from one call to the next (a map that outlives the call)
\* instead of made anew.
KeepFiles == files

\* files := make(map[string]*fileset.File)
MakeFiles == NoFiles

\* The decision, and the entry of ensureOffsetsAreByteOffsets when it converts.
Decide ==
    /\ pc = "decide"
    /\ convertOffsets' = ConvertDecision(offsetType, unitType)
    /\ IF convertOffsets'
       THEN /\ pc' = "fixDefs"
            /\ files' = MakeFiles
            /\ reads' = NoReads
       ELSE /\ pc' = "validateRefs"
            /\ UNCHANGED <<files, reads>>
    /\ i' = 1
    /\ UNCHANGED <<offsetType, unitType, o, fs, vlog, err, o0, fsPrev, calls, panics>>

\* The offset fields of the records of the collection coll.
StartField(coll) == IF coll = "Defs" THEN "DefStart" ELSE "Start"
EndField(coll) == IF coll = "Defs" THEN "DefEnd" ELSE "End"

\* FixRecord with the two offsets written back to the wrong fields.
FixRecordSwapped(coll, rec, cache, rd) ==
    LET r == fix(rec.File, <<rec[StartField(coll)], rec[EndField(coll)]>>, cache, rd)
    IN  [rec |-> [rec EXCEPT ![StartField(coll)] = r.offsets[2],
                             ![EndField(coll)] = r.offsets[1]],
         files |-> r.files, reads |-> r.reads, panicked |-> r.panicked]

\* The body of a range loop of ensureOffsetsAreByteOffsets on the record rec
\* of the collection coll: fix(rec.File, &rec.Start, &rec.End).
FixRecord(coll, rec, cache, rd) ==
    LET r == fix(rec.File, <<rec[StartField(coll)], rec[EndField(coll)]>>, cache, rd)
    IN  [rec |-> [rec EXCEPT ![StartField(coll)] = r.offsets[1],
                             ![EndField(coll)] = r.offsets[2]],
         files |-> r.files, reads |-> r.reads, panicked |-> r.panicked]

\* FixLoop with the panic recovered around the whole pass instead of inside
\* fix: the first failure ends the conversion of the Output.
FixLoopAbort(coll, next) ==
    IF i <= Len(o[coll])
    THEN LET r == FixRecord(coll, o[coll][i], files, reads)
         IN  /\ o' = [o EXCEPT ![coll][i] = r.rec]
             /\ files' = r.files
             /\ reads' = r.reads
             /\ panics' = IF r.panicked THEN panics \cup {<<coll, r.rec.ptr>>} ELSE panics
             /\ IF r.panicked
                THEN pc' = "validateRefs" /\ i' = 1
                ELSE i' = i + 1 /\ UNCHANGED pc
    ELSE /\ pc' = next
         /\ i' = 1
         /\ UNCHANGED <<o, files, reads, panics>>

\* One pass of the range loop of ensureOffsetsAreByteOffsets over the
\* collection coll; after the last record the next loop (or the first
\* validator) follows at pc next.
FixLoop(coll, next) ==
    IF i <= Len(o[coll])
    THEN LET r == FixRecord(coll, o[coll][i], files, reads)
         IN  /\ o' = [o EXCEPT ![coll][i] = r.rec]
             /\ files' = r.files
             /\ reads' = r.reads
             /\ panics' = IF r.panicked THEN panics \cup {<<coll, r.rec.ptr>>} ELSE panics
             /\ i' = i + 1
             /\ UNCHANGED pc
    ELSE /\ pc' = next
         /\ i' = 1
         /\ UNCHANGED <<o, files, reads, panics>>

FixDefs ==
    /\ pc = "fixDefs"
    /\ FixLoop("Defs", "fixRefs")
    /\ UNCHANGED <<offsetType, unitType, fs, convertOffsets, vlog, err, o0, fsPrev, calls>>

FixRefs ==
    /\ pc = "fixRefs"
    /\ FixLoop("Refs", "fixDocs")
    /\ UNCHANGED <<offsetType, unitType, fs, convertOffsets, vlog, err, o0, fsPrev, calls>>

FixDocs ==
    /\ pc = "fixDocs"
    /\ FixLoop("Docs", "fixAnns")
    /\ UNCHANGED <<offsetType, unitType, fs, convertOffsets, vlog, err, o0, fsPrev, calls>>

FixAnns ==
    /\ pc = "fixAnns"
    /\ FixLoop("Anns", "validateRefs")
    /\ UNCHANGED <<offsetType, unitType, fs, convertOffsets, vlog, err, o0, fsPrev, calls>>

\* Validate with the Output restored to what the call was given when the
\* validator rejects.
ValidateRollback(coll, next) ==
    \E accepts \in BOOLEAN :
        /\ vlog' = Append(vlog, <<coll, accepts, o[coll]>>)
        /\ IF accepts
           THEN /\ pc' = next
                /\ UNCHANGED <<err, o>>
           ELSE /\ pc' = "done"
                /\ err' = coll
                /\ o' = o0
        /\ UNCHANGED <<offsetType, unitType, fs, i, convertOffsets, files, reads,
                       o0, fsPrev, calls, panics>>

\* Validate with sortedOutput called before the validator instead of after
\* the last one.
ValidateSorted(coll, next) ==
    \E accepts \in BOOLEAN :
        /\ o' = sortedOutput(o)
        /\ vlog' = Append(vlog, <<coll, accepts, o'[coll]>>)
        /\ IF accepts
           THEN /\ pc' = next
                /\ UNCHANGED err
           ELSE /\ pc' = "done"
                /\ err' = coll
        /\ UNCHANGED <<offsetType, unitType, fs, i, convertOffsets, files, reads,
                       o0, fsPrev, calls, panics>>

\* Validate with the errors collected: a rejection is recorded and the next
\* validator runs all the same.
ValidateCollecting(coll, next) ==
    \E accepts \in BOOLEAN :
        /\ vlog' = Append(vlog, <<coll, accepts, o[coll]>>)
        /\ pc' = next
        /\ err' = IF accepts \/ err # "pending" THEN err ELSE coll
        /\ UNCHANGED <<offsetType, unitType, o, fs, i, convertOffsets, files, reads,
                       o0, fsPrev, calls, panics>>

\* if err := Validate<coll>(o.<coll>); err != nil { return err }: the
\* validator is an external predicate, its verdict is any.
Validate(coll, next) ==
    \E accepts \in BOOLEAN :
        /\ vlog' = Append(vlog, <<coll, accepts, o[coll]>>)
        /\ IF accepts
           THEN /\ pc' = next
                /\ UNCHANGED err
           ELSE /\ pc' = "done"
                /\ err' = coll
        /\ UNCHANGED <<offsetType, unitType, o, fs, i, convertOffsets, files, reads,
                       o0, fsPrev, calls, panics>>

ValidateRefs == pc = "validateRefs" /\ Validate("Refs", "validateDefs")
ValidateDefs == pc = "validateDefs" /\ Validate("Defs", "validateDocs")
ValidateDocs == pc = "validateDocs" /\ Validate("Docs", "sort")

\* sortedOutput(o); return nil
SortAndReturn ==
    /\ pc = "sort"
    /\ o' = sortedOutput(o)
    /\ err' = "nil"
    /\ pc' = "done"
    /\ UNCHANGED <<offsetType, unitType, fs, i, convertOffsets, files, reads,
                   vlog, o0, fsPrev, calls, panics>>

\* The caller normalizes the Output it got back once more, with the same
\* arguments; the content of a file may have changed in between.
CallAgain ==
    /\ pc = "done"
    /\ err = "nil"
    /\ calls < MaxCalls
    /\ \E newfs \in (IF fs = FS0 THEN {fs, EditedFS(fs)} ELSE {fs}) :
        /\ fs' = newfs
        /\ fsPrev' = fs
    /\ calls' = calls + 1
    /\ o0' = o
    /\ pc' = "rewrite"
    /\ i' = 1
    /\ vlog' = <<>>
    /\ err' = "pending"
    /\ panics' = {}
    /\ UNCHANGED <<offsetType, unitType, o, convertOffsets, files, reads>>

Next ==
    \/ Rewrite
    \/ Decide
    \/ FixDefs
    \/ FixRefs
    \/ FixDocs
    \/ FixAnns
    \/ ValidateRefs
    \/ ValidateDefs
    \/ ValidateDocs
    \/ SortAndReturn
    \/ CallAgain

Spec == Init /\ [][Next]_vars

---------------------------------------------------------------------------
(* NormalizeData as a function of its arguments *)

\* The range loop of ensureOffsetsAreByteOffsets over recs, from the k-th
\* record on.
RECURSIVE ConvertColl(_, _, _, _, _)
ConvertColl(coll, recs, k, cache, rd) ==
    IF k > Len(recs) THEN [recs |-> recs, files |-> cache, reads |-> rd]
    ELSE LET r == FixRecord(coll, recs[k], cache, rd)
         IN  ConvertColl(coll, [recs EXCEPT ![k] = r.rec], k + 1, r.files, r.reads)

\* The Output after ensureOffsetsAreByteOffsets(dir, out).
ensureOffsetsAreByteOffsets(out) ==
    LET d == ConvertColl("Defs", out.Defs, 1, MakeFiles, NoReads)
        r == ConvertColl("Refs", out.Refs, 1, d.files, d.reads)
        c == ConvertColl("Docs", out.Docs, 1, r.files, r.reads)
        a == ConvertColl("Anns", out.Anns, 1, c.files, c.reads)
    IN  [Defs |-> d.recs, Refs |-> r.recs, Docs |-> c.recs, Anns |-> a.recs]

\* The Output after a NormalizeData(ot, ut, dir, out) that returns nil.
NormalizeData(ot, ut, out) ==
    LET rewritten == [out EXCEPT !.Refs = RewriteRefs(out.Refs)]
        converted == IF ConvertDecision(ot, ut)
                     THEN ensureOffsetsAreByteOffsets(rewritten) ELSE rewritten
    IN  sortedOutput(converted)

---------------------------------------------------------------------------
(* Vocabulary of the properties: what a correct conversion is, stated from  *)
(* the files themselves and not from the converter.                        *)

Colls == {"Defs", "Refs", "Docs", "Anns"}

\* The two offset fields of a record of the collection coll, in the order
\* fix receives them.
Offs(coll, r) == IF coll = "Defs" THEN <<r.DefStart, r.DefEnd>> ELSE <<r.Start, r.End>>

\* The fix of the record at x recovered a panic in this call.
Panicked(x) == <<x[1], o[x[1]][x[2]].ptr>> \in panics

\* The records of the Output, as <<collection, index>>.
Recs == UNION { { <<coll, k>> : k \in DOMAIN o[coll] } : coll \in Colls }

\* The record at x now, and the same record (by identity) as the call got it.
Now(x) == o[x[1]][x[2]]
Before(x) ==
    CHOOSE r \in { o0[x[1]][k] : k \in DOMAIN o0[x[1]] } : r.ptr = Now(x).ptr

\* NormalizeData has returned.
Returned == pc = "done"

\* The offset-type and unit-type ask for conversion.
Applies ==
    \/ offsetType = OffsetChar
    \/ /\ offsetType = OffsetUnspecified
       /\ unitType \notin {GoPackage, Dockerfile}
       /\ ~(Len(unitType) >= 4 /\ SubSeq(unitType, 1, 4) = <<"J", "a", "v", "a">>)

\* file names an existing regular file under dir.
IsRegularFile(file) ==
    /\ file # ""
    /\ fs[<<Dir, file>>].mode = "regular"

\* file names an existing regular file under dir that can be read.
Resolves(file) == IsRegularFile(file) /\ fs[<<Dir, file>>].readable

\* The rune offset off is within the content of file.
InContent(file, off) == off <= Len(fs[<<Dir, file>>].data)

\* The byte offset of the rune offset off in file.
RECURSIVE BytesBefore(_, _)
BytesBefore(data, off) ==
    IF off = 0 THEN 0 ELSE data[off] + BytesBefore(data, off - 1)
ByteOf(file, off) == BytesBefore(fs[<<Dir, file>>].data, off)

\* The k-th offset field of a record with file and offsets offs can be
\* converted: it is not 0, the file resolves and the offset is in its content.
Convertible(file, offs, k) ==
    /\ offs[k] # 0
    /\ Resolves(file)
    /\ InContent(file, offs[k])

\* Converting the k-th offset field of such a record fails.
Fails(file, offs, k) ==
    /\ offs[k] # 0
    /\ IsRegularFile(file)
    /\ ~(Resolves(file) /\ InContent(file, offs[k]))

---------------------------------------------------------------------------
(* C1 *)

\* C1 (as claimed): when conversion applies, after NormalizeData every
\* non-zero offset field whose record's File resolves to a readable regular
\* file and whose rune offset is within that file's content holds the byte
\* offset of that rune offset in the record's own file.
C1_AsClaimed ==
    (Returned /\ Applies) =>
        \A x \in Recs : \A k \in 1..2 :
            LET b == Before(x)
                offs == Offs(x[1], b)
            IN  Convertible(b.File, offs, k) =>
                    Offs(x[1], Now(x))[k] = ByteOf(b.File, offs[k])

\* C1 (amended): the same, for every such field that no failing offset field
\* of the same record precedes.
C1_OwnFileByteOffsets ==
    (Returned /\ Applies) =>
        \A x \in Recs : \A k \in 1..2 :
            LET b == Before(x)
                offs == Offs(x[1], b)
            IN  (/\ Convertible(b.File, offs, k)
                 /\ \A j \in 1..(k - 1) : ~Fails(b.File, offs, j)) =>
                    Offs(x[1], Now(x))[k] = ByteOf(b.File, offs[k])

\* Two records with the same rune offsets in different files end with
\* different byte offsets, each that of its own file.
C1_Witness ==
    /\ Returned /\ Applies /\ calls = 1
    /\ \E x, y \in Recs :
        /\ Before(x).File = "a" /\ Before(y).File = "b"
        /\ Offs(x[1], Before(x)) = <<1, 2>> /\ Offs(y[1], Before(y)) = <<1, 2>>
        /\ Offs(x[1], Now(x)) = <<2, 3>> /\ Offs(y[1], Now(y)) = <<1, 3>>

---------------------------------------------------------------------------
(* C2 *)

\* What the offsets offs of a record with file are after its conversion,
\* from the record and the files alone: each convertible field holds its byte
\* offset, up to the first field that fails; from there on nothing changes.
ExpectedOffs(file, offs) ==
    <<IF Convertible(file, offs, 1) THEN ByteOf(file, offs[1]) ELSE offs[1],
      IF ~Fails(file, offs, 1) /\ Convertible(file, offs, 2)
      THEN ByteOf(file, offs[2]) ELSE offs[2]>>

\* The validators run in this call all accepted.
AllAccepted == \A k \in DOMAIN vlog : vlog[k][2]

\* C2: a failure in converting an offset of one record (offset beyond the
\* content, unreadable file) leaves every record of the four collections
\* converted as its own file and offsets alone determine, leaves the failing
\* offset as it was, and makes NormalizeData return no error: it returns one
\* only when a validator rejects.
C2_FailureIsolation ==
    (Returned /\ Applies) =>
        /\ \A x \in Recs :
            LET b == Before(x)
                offs == Offs(x[1], b)
            IN  /\ Offs(x[1], Now(x)) = ExpectedOffs(b.File, offs)
                /\ \A k \in 1..2 :
                    (Fails(b.File, offs, k) /\ \A j \in 1..(k - 1) : ~Fails(b.File, offs, j))
                        => Offs(x[1], Now(x))[k] = offs[k]
        /\ AllAccepted => err = "nil"

\* A record fails on an offset beyond the content of "a" and a record
\* processed after it, on the same file, is converted; the call succeeds.
C2_Witness ==
    /\ Returned /\ Applies /\ calls = 1 /\ err = "nil"
    /\ \E x, y \in Recs :
        /\ x[1] = "Defs" /\ y[1] \in {"Docs", "Anns"}
        /\ Before(x).File = "a" /\ Before(y).File = "a"
        /\ Panicked(x) /\ ~Panicked(y)
        /\ Offs(x[1], Before(x)) = <<MaxOff, 1>> /\ Offs(x[1], Now(x)) = <<MaxOff, 1>>
        /\ Offs(y[1], Before(y)) = <<1, 2>> /\ Offs(y[1], Now(y)) = <<2, 3>>

---------------------------------------------------------------------------
(* C3 *)

\* C3: an offset field that holds 0 when NormalizeData is called holds 0 at
\* every point of the call and after it, whatever the offset-type, the
\* unit-type, the files and the result.
C3_ZeroOffsetInvariance ==
    \A x \in Recs : \A k \in 1..2 :
        Offs(x[1], Before(x))[k] = 0 => Offs(x[1], Now(x))[k] = 0

\* A record of "a" whose Start is 0 has had its End converted, and its Start
\* is still 0.
C3_Witness ==
    /\ Returned /\ Applies /\ calls = 1
    /\ \E x \in Recs :
        /\ Before(x).File = "a"
        /\ Offs(x[1], Before(x)) = <<0, 2>>
        /\ Offs(x[1], Now(x)) = <<0, 3>>

---------------------------------------------------------------------------
(* C4 *)

\* The call has decided whether to convert.
Decided == pc \notin {"rewrite", "decide"}

\* The call is in, or has been through, ensureOffsetsAreByteOffsets.
Converting == pc \in {"fixDefs", "fixRefs", "fixDocs", "fixAnns"}

\* C4: NormalizeData converts exactly when the offset-type is Char, or is
\* Unspecified with a unit-type that is neither "GoPackage" nor "Dockerfile"
\* nor begins with "Java": never for Byte, always for Char. When it does not
\* convert, no offset field of any record changes.
C4_ConversionDecision ==
    /\ Decided => (convertOffsets <=> Applies)
    /\ Converting => Applies
    /\ (Decided /\ offsetType = OffsetByte) => ~convertOffsets
    /\ (Decided /\ offsetType = OffsetChar) => convertOffsets
    /\ ~Applies => \A x \in Recs : Offs(x[1], Now(x)) = Offs(x[1], Before(x))

\* With Unspecified and a unit-type that only begins with "Java", a record at
\* a position of "a" that conversion would change is returned unchanged.
C4_Witness ==
    /\ Returned /\ calls = 1
    /\ offsetType = OffsetUnspecified
    /\ unitType = JavaArtifact
    /\ ~convertOffsets
    /\ \E x \in Recs :
        /\ Before(x).File = "a"
        /\ Offs(x[1], Before(x)) = <<1, 2>>
        /\ Offs(x[1], Now(x)) = <<1, 2>>

---------------------------------------------------------------------------
(* C5 *)

\* The records of the Output whose File joins with dir to the path p.
RecsAt(p) == { x \in Recs : Before(x).File # "" /\ <<Dir, Before(x).File>> = p }

\* C5: a record whose File is empty, or names under dir nothing or something
\* that is not a regular file, keeps its offsets and causes no failure; no file
\* is read and none is cached for it (a path is read at most once per record
\* that names it as a regular file); and NormalizeData succeeds when the
\* validators accept.
C5_MissingFileTolerance ==
    /\ \A x \in Recs :
        ~IsRegularFile(Before(x).File) =>
            /\ Offs(x[1], Now(x)) = Offs(x[1], Before(x))
            /\ ~Panicked(x)
    /\ \A p \in Paths :
        /\ reads[p] = 0 \/ reads[p] <= Cardinality(RecsAt(p))
        /\ fs[p].mode # "regular" => (reads[p] = 0 /\ p \notin DOMAIN files)
    /\ (Returned /\ AllAccepted) => err = "nil"

\* A call that converts returns no error on a record, with offsets that are
\* not 0, whose File names nothing under dir.
C5_Witness ==
    /\ Returned /\ Applies /\ calls = 1 /\ err = "nil"
    /\ \E x \in Recs :
        /\ Before(x).File = "m"
        /\ Offs(x[1], Now(x)) = <<1, 2>>
    /\ \A p \in Paths : reads[p] = 0
    /\ files = NoFiles

---------------------------------------------------------------------------
(* C6 *)

ValidatorOrder == <<"Refs", "Defs", "Docs">>

\* Each collection holds its records in the order of the call's input.
InputOrder ==
    \A coll \in Colls : \A k \in DOMAIN o[coll] : o[coll][k].ptr = o0[coll][k].ptr

\* C6: the validators run in the order Refs, Defs, Docs and none runs after
\* one has rejected; NormalizeData returns the error of the one that rejected,
\* with every collection still in its input order, and returns no error
\* exactly when all three accepted; it sorts only then.
C6_FailFastValidation ==
    /\ Len(vlog) <= Len(ValidatorOrder)
    /\ \A k \in DOMAIN vlog :
        /\ vlog[k][1] = ValidatorOrder[k]
        /\ k < Len(vlog) => vlog[k][2]
    /\ pc = "sort" => (Len(vlog) = Len(ValidatorOrder) /\ AllAccepted)
    /\ Returned => (err = "nil" <=> (Len(vlog) = Len(ValidatorOrder) /\ AllAccepted))
    /\ (Returned /\ err # "nil") =>
        /\ vlog # <<>>
        /\ ~vlog[Len(vlog)][2]
        /\ err = vlog[Len(vlog)][1]
        /\ InputOrder

\* The Def validator rejects after the Ref validator accepted: the call
\* returns its error, the Doc validator has not run, and two Defs given out
\* of order are still out of order, one of them with a recovered failure.
C6_Witness ==
    /\ Returned /\ calls = 1
    /\ err = "Defs"
    /\ Len(vlog) = 2
    /\ vlog[1][1] = "Refs" /\ vlog[1][2]
    /\ vlog[2][1] = "Defs" /\ ~vlog[2][2]
    /\ panics # {}
    /\ Len(o.Defs) = 2
    /\ Less("Defs", o.Defs[2], o.Defs[1])

---------------------------------------------------------------------------
(* C7 *)

\* Every file a record resolves to holds one-byte runes only.
OneByteFiles ==
    \A x \in Recs :
        Resolves(Before(x).File) =>
            \A n \in DOMAIN fs[<<Dir, Before(x).File>>].data :
                fs[<<Dir, Before(x).File>>].data[n] = 1

\* The call is a repeated one, on the Output a successful call returned, with
\* the same arguments and the files unchanged.
Repeated == calls >= 2 /\ fs = fsPrev

\* C7 (as claimed): a repeated call returns an Output equal to the one it
\* was given, in every field and every order.
C7_AsClaimed == (Returned /\ Repeated) => o = o0

\* C7 (amended): a repeated call returns an Output equal to the one it was
\* given when it converts nothing (offset-type Byte, or Unspecified with an
\* excluded unit-type) or when every file it converts in holds one-byte
\* characters only.
C7_Idempotence ==
    (Returned /\ Repeated /\ (~Applies \/ OneByteFiles)) => o = o0

\* A repeated call that does not convert returns, unchanged, a Ref of "a"
\* whose DefRepo the first call rewrote.
C7_Witness ==
    /\ Returned /\ Repeated /\ err = "nil"
    /\ ~Applies
    /\ o = o0
    /\ \E k \in DOMAIN o.Refs :
        /\ o.Refs[k].DefRepo = CanonRepo
        /\ o.Refs[k].File = "a"
        /\ Offs("Refs", o.Refs[k]) = <<1, 2>>

---------------------------------------------------------------------------
(* C8 *)

\* The sequences with the elements of s in any order.
Shuffled(s) ==
    { [k \in DOMAIN s |-> s[f[k]]] :
        f \in { g \in [DOMAIN s -> DOMAIN s] :
                    \A a, b \in DOMAIN s : a # b => g[a] # g[b] } }

\* The Outputs with the records of out, each collection in any order.
ShuffledOutputs(out) ==
    [Defs : Shuffled(out.Defs), Refs : Shuffled(out.Refs),
     Docs : Shuffled(out.Docs), Anns : Shuffled(out.Anns)]

\* The fields of the records of out, without their identities.
Fields(out) ==
    [coll \in Colls |->
        [k \in DOMAIN out[coll] |->
            [f \in DOMAIN out[coll][k] \ {"ptr"} |-> out[coll][k][f]]]]

\* C8: when NormalizeData succeeds, the Output it returns is the one a
\* successful call with the same arguments returns for every Output that
\* holds the same records in another order: each collection in the same order.
C8_Determinism ==
    (Returned /\ err = "nil") =>
        \A p \in ShuffledOutputs(o0) :
            Fields(NormalizeData(offsetType, unitType, p)) = Fields(o)

\* A successful call that returns two different records of one collection in
\* the order opposite to the one it was given them in.
C8_Witness ==
    /\ Returned /\ err = "nil" /\ calls = 1
    /\ \E coll \in Colls :
        /\ Len(o[coll]) = 2
        /\ o[coll][1].ptr = 2
        /\ Less(coll, o[coll][1], o[coll][2])

---------------------------------------------------------------------------
(* C9 *)

\* C9 (as claimed): a record with an offset whose conversion fails holds,
\* after the pass, the offsets it held before it, both of them.
C9_AsClaimed ==
    (Returned /\ Applies) =>
        \A x \in Recs :
            LET b == Before(x)
            IN  (\E k \in 1..2 : Fails(b.File, Offs(x[1], b), k)) =>
                    Offs(x[1], Now(x)) = Offs(x[1], b)

---------------------------------------------------------------------------
(* C10 *)

\* C10 (as claimed): in one pass ioutil.ReadFile is called at most once for
\* each path.
C10_AsClaimed == \A p \in Paths : reads[p] <= 1

\* The pass of this call has a cache.
InPass == Decided /\ convertOffsets

\* A path in the cache has been read once and its entry is the index of the
\* content of the file; a path read more than once is one that cannot be read.
C10_ReadOnce ==
    InPass =>
        \A p \in Paths :
            /\ p \in DOMAIN files =>
                /\ reads[p] = 1
                /\ files[p].byteOffsets =
                       [n \in 1..(Len(fs[p].data) + 1) |-> BytesBefore(fs[p].data, n - 1)]
            /\ reads[p] > 1 => ~fs[p].readable
            /\ (reads[p] >= 1 /\ fs[p].readable) => p \in DOMAIN files

\* During the pass an entry of the cache is neither removed nor replaced.
C10_WriteOnce ==
    Converting =>
        \A p \in DOMAIN files : p \in DOMAIN files' /\ files'[p] = files[p]

\* C10 (amended): in one pass each path that can be read is read and indexed
\* at most once, however many records name it; every later request for it
\* gets the index built then, and a cache entry once written is never
\* replaced. A file that cannot be read is not cached: it is read again for
\* every record that names it.
C10_FileContentCache == []C10_ReadOnce /\ [][C10_WriteOnce]_vars

\* Two records of different collections name "a", both have been converted,
\* and "a" has been read once.
C10_Witness ==
    /\ Returned /\ calls = 1
    /\ reads[<<Dir, "a">>] = 1
    /\ \E x, y \in Recs :
        /\ x[1] # y[1]
        /\ Before(x).File = "a" /\ Before(y).File = "a"
        /\ Offs(x[1], Before(x)) = <<1, 2>> /\ Offs(x[1], Now(x)) = <<2, 3>>
        /\ Offs(y[1], Before(y)) = <<1, 2>> /\ Offs(y[1], Now(y)) = <<2, 3>>

---------------------------------------------------------------------------
(* C11 *)

\* The canonical URI form of the repository identifiers modelled.
CanonicalForm(repo) == IF repo = RawRepo THEN CanonRepo ELSE repo

\* The Output the call got, with the DefRepo of its Refs in canonical form
\* and nothing else changed.
RefsRewritten(out) ==
    [out EXCEPT !.Refs =
        [k \in DOMAIN out.Refs |->
            [out.Refs[k] EXCEPT !.DefRepo = CanonicalForm(out.Refs[k].DefRepo)]]]

\* C11: the first thing NormalizeData does, whatever the offset-type and the
\* unit-type, is to replace the DefRepo of every Ref that has one by its
\* canonical URI form; an empty DefRepo stays empty, and no other field of
\* any record is changed by it. The DefRepo then stays as it is to the end of
\* the call.
C11_ReferenceRewrite ==
    /\ pc = "rewrite" => o = o0
    /\ pc = "decide" => o = RefsRewritten(o0)
    /\ pc # "rewrite" =>
        \A x \in Recs :
            x[1] = "Refs" =>
                /\ Now(x).DefRepo = CanonicalForm(Before(x).DefRepo)
                /\ Before(x).DefRepo = EmptyRepo => Now(x).DefRepo = EmptyRepo
                /\ Before(x).DefRepo # EmptyRepo => Now(x).DefRepo = CanonRepo

\* A call that does not convert returns two Refs, both given with a DefRepo
\* that is not canonical, both with the canonical one and their offsets as
\* given.
C11_Witness ==
    /\ Returned /\ ~Applies /\ calls = 1 /\ err = "nil"
    /\ Len(o.Refs) = 2
    /\ \A x \in Recs :
        x[1] = "Refs" =>
            /\ Before(x).DefRepo = RawRepo
            /\ Now(x).DefRepo = CanonRepo
            /\ Offs("Refs", Now(x)) = Offs("Refs", Before(x))

---------------------------------------------------------------------------
(* C12 *)

\* The Defs of the Output that the call got on a file of CafeFiles with both
\* offsets at the rune offset off.
CafeDefsAt(off) ==
    { x \in Recs : /\ x[1] = "Defs"
                   /\ Before(x).File \in CafeFiles
                   /\ Offs("Defs", Before(x)) = <<off, off>> }

\* C12 (as claimed): with offset-type Char, a Def with the rune-offset range
\* [4,4] in a file of 5 code points and 6 bytes ends with DefEnd 6.
C12_AsClaimed ==
    (Returned /\ offsetType = OffsetChar) =>
        \A x \in CafeDefsAt(4) : Now(x).DefEnd = 6

\* C12 (amended): with offset-type Char, a Def with the rune-offset range
\* [4,4] in a file of 5 code points and 6 bytes ends with DefStart and DefEnd
\* at the byte offset of its fifth code point: 4 when the two-byte code point
\* is the fifth, 5 when it is one of the first four; never 6.
C12_CafeScenario ==
    (Returned /\ offsetType = OffsetChar) =>
        \A x \in CafeDefsAt(4) :
            /\ Now(x).DefEnd = IF Before(x).File = "k5" THEN 4 ELSE 5
            /\ Now(x).DefStart = Now(x).DefEnd

\* A first call with offset-type Char has returned a Def given with the
\* range [4,4] in the file whose fourth code point has two bytes, with the
\* range [5,5].
C12_Witness ==
    /\ Returned /\ offsetType = OffsetChar /\ calls = 1 /\ err = "nil"
    /\ \E x \in CafeDefsAt(4) :
        /\ Before(x).File = "k4"
        /\ Offs("Defs", Now(x)) = <<5, 5>>

---------------------------------------------------------------------------
(* C13 *)

\* The Output the call got as the rewrite and the conversion are to leave
\* it: every DefRepo in canonical form and, when conversion applies, the
\* offsets of every record as its file determines them; every collection in
\* the order it was given.
Processed(out) ==
    LET rw == RefsRewritten(out)
    IN  [coll \in Colls |->
            [k \in DOMAIN rw[coll] |->
                LET r == rw[coll][k]
                    e == ExpectedOffs(r.File, Offs(coll, r))
                IN  IF ~Applies THEN r
                    ELSE IF coll = "Defs"
                    THEN [r EXCEPT !.DefStart = e[1], !.DefEnd = e[2]]
                    ELSE [r EXCEPT !.Start = e[1], !.End = e[2]]]]

\* The call is at, or has been through, its validators.
Validating == pc \in {"validateRefs", "validateDefs", "validateDocs", "sort", "done"}

\* C13: in every call the rewrite of the DefRepo values is complete before
\* any offset is converted, the conversion (when it applies) is complete
\* before the first validator runs, and the collections are sorted only after
\* all three validators have accepted: each validator is given its collection
\* with the DefRepo values rewritten and the offsets as the conversion leaves
\* them, in the order of the input.
C13_StepOrdering ==
    /\ pc \in {"rewrite", "decide"} =>
        /\ \A x \in Recs : Offs(x[1], Now(x)) = Offs(x[1], Before(x))
        /\ panics = {}
    /\ Converting => \A k \in DOMAIN o.Refs : o.Refs[k].DefRepo = RefsRewritten(o0).Refs[k].DefRepo
    /\ ~Validating => vlog = <<>>
    /\ (Validating /\ ~(pc = "done" /\ err = "nil")) => o = Processed(o0)
    /\ \A k \in DOMAIN vlog : vlog[k][3] = Processed(o0)[vlog[k][1]]
    /\ pc = "sort" => (Len(vlog) = Len(ValidatorOrder) /\ AllAccepted)
    /\ ~InputOrder => (pc = "done" /\ err = "nil" /\ Len(vlog) = Len(ValidatorOrder) /\ AllAccepted)

\* A successful call that converts has returned two Refs in the order opposite
\* to the input's; the Ref validator was given them in the order of the input,
\* with the canonical DefRepo and with byte offsets that differ from the rune
\* offsets of the input.
C13_Witness ==
    /\ Returned /\ Applies /\ calls = 1 /\ err = "nil"
    /\ Len(o.Refs) = 2
    /\ o.Refs[1].ptr = 2
    /\ vlog[1][1] = "Refs"
    /\ vlog[1][3][1].ptr = 1
    /\ \A k \in 1..2 :
        /\ o0.Refs[k].DefRepo = RawRepo
        /\ vlog[1][3][k].DefRepo = CanonRepo
        /\ Offs("Refs", o0.Refs[k]) = <<1, 2>>
        /\ Offs("Refs", vlog[1][3][k]) \in {<<2, 3>>, <<1, 3>>}

---------------------------------------------------------------------------
(* C14 *)

\* The call is a later one and the content of a file has changed since the
\* call before it.
ContentChanged == calls >= 2 /\ fs # fsPrev

\* C14: a call that converts enters its conversion with an empty cache and
\* nothing read; every index in its cache was built in this call, from the
\* content the file has now; and so a call made after the content of a file
\* has changed returns the offsets that the new content determines.
C14_CacheScope ==
    /\ (pc = "fixDefs" /\ i = 1) => (files = NoFiles /\ reads = NoReads)
    /\ InPass =>
        \A p \in DOMAIN files :
            /\ reads[p] >= 1
            /\ files[p].byteOffsets =
                   [n \in 1..(Len(fs[p].data) + 1) |-> BytesBefore(fs[p].data, n - 1)]
    /\ (Returned /\ Applies /\ ContentChanged) =>
        \A x \in Recs :
            Offs(x[1], Now(x)) = ExpectedOffs(Before(x).File, Offs(x[1], Before(x)))

\* The content of "a" changed after a first call had indexed it; the second
\* call has converted a record of "a" and returned the byte offset of the new
\* content (4), not that of the old one (3).
C14_Witness ==
    /\ Returned /\ Applies /\ ContentChanged
    /\ fs[<<Dir, "a">>].data = ContentEdited
    /\ fsPrev[<<Dir, "a">>].data = ContentA
    /\ reads[<<Dir, "a">>] = 1
    /\ \E x \in Recs :
        /\ Before(x).File = "a"
        /\ Offs(x[1], Before(x)) = <<2, 2>>
        /\ Offs(x[1], Now(x)) = <<4, 4>>

---------------------------------------------------------------------------
(* C15 *)

\* NormalizeData has returned the error of a validator.
Failed == Returned /\ err # "nil"

\* C15: when NormalizeData returns the error of a validator, every collection
\* holds its records in the order of the input, and the Output keeps what the
\* steps before the validators did to it: every DefRepo that was given is in
\* its canonical form, and when conversion applies every offset is as the
\* conversion left it (as given when it does not apply). Nothing is undone.
C15_StateAfterValidationFailure ==
    Failed =>
        /\ InputOrder
        /\ \A x \in Recs :
            LET b == Before(x)
            IN  /\ x[1] = "Refs" => Now(x).DefRepo = CanonicalForm(b.DefRepo)
                /\ Now(x).File = b.File
                /\ Applies => Offs(x[1], Now(x)) = ExpectedOffs(b.File, Offs(x[1], b))
                /\ ~Applies => Offs(x[1], Now(x)) = Offs(x[1], b)

\* The Doc validator rejects in a call that converts: the two Refs, given out
\* of order with a DefRepo that is not canonical, are returned still out of
\* order, with the canonical DefRepo and with byte offsets.
C15_Witness ==
    /\ Failed /\ err = "Docs" /\ Applies /\ calls = 1
    /\ Len(o.Refs) = 2
    /\ Less("Refs", o.Refs[2], o.Refs[1])
    /\ \A k \in 1..2 :
        /\ o.Refs[k].ptr = k
        /\ o0.Refs[k].DefRepo = RawRepo /\ o.Refs[k].DefRepo = CanonRepo
        /\ Offs("Refs", o0.Refs[k]) = <<1, 2>>
        /\ Offs("Refs", o.Refs[k]) # <<1, 2>>

---------------------------------------------------------------------------
(* C16 *)

\* The positions of the collection s that hold the record with identity p.
Places(s, p) == { k \in DOMAIN s : s[k].ptr = p }

\* The fields of a record of the collection coll that NormalizeData may
\* change.
Mutable(coll) ==
    {StartField(coll), EndField(coll)} \cup (IF coll = "Refs" THEN {"DefRepo"} ELSE {})

\* C16: at every point of a call and after it, with or without an error, each
\* of the four collections holds exactly the records the call was given, each
\* of them once, and every field of a record other than DefRepo and the two
\* offsets is as it was given.
C16_ElementPreservation ==
    \A coll \in Colls :
        /\ Len(o[coll]) = Len(o0[coll])
        /\ \A k \in DOMAIN o0[coll] : Cardinality(Places(o[coll], o0[coll][k].ptr)) = 1
        /\ \A k \in DOMAIN o[coll] :
            LET r == o[coll][k]
                b == Before(<<coll, k>>)
            IN  /\ DOMAIN r = DOMAIN b
                /\ \A f \in DOMAIN r \ Mutable(coll) : r[f] = b[f]

\* A successful call that converts was given two Defs equal in every field:
\* it has returned both of them, each converted.
C16_Witness ==
    /\ Returned /\ err = "nil" /\ Applies /\ calls = 1
    /\ Len(o.Defs) = 2
    /\ Fields(o0).Defs[1] = Fields(o0).Defs[2]
    /\ {o.Defs[1].ptr, o.Defs[2].ptr} = {1, 2}
    /\ \A k \in 1..2 :
        /\ Offs("Defs", o0.Defs[k]) = <<1, 2>>
        /\ Offs("Defs", o.Defs[k]) # <<1, 2>>

====
